---------------------------- MODULE Spec2Model ----------------------------
(***************************************************************************)
(* A model of streamlit_app.py: the technical indicators, the ten pattern  *)
(* detectors, and the screening run started by the "Mulai Analisa" button  *)
(* of main().                                                              *)
(*                                                                         *)
(* Numbers.  pandas computes in IEEE doubles.  Here a value is an exact    *)
(* rational [n, d] with d > 0, and NaN is the pair with d = 0; every       *)
(* comparison with NaN is FALSE, as in IEEE.  The exponential moving       *)
(* averages of calculate_macd are the one exception: they are computed in  *)
(* fixed point with Scale units per price unit.                            *)
(***************************************************************************)
EXTENDS Integers, Sequences, FiniteSets, TLC

VARIABLES
    checks,     \* the sidebar checkboxes: checkbox -> BOOLEAN
    pc,         \* where main() is: idle, load, loop, report, done, rejected, aborted, crashed
    selected_indicators,   \* main's list of selected names
    sheet,      \* the Ticker column load_google_sheet read, <<>> before
    tickers,    \* main's tickers list
    i,          \* how many tickers the loop has gone through
    lastData,   \* main's data after the last loop pass: None or not, and its len()
    matched,    \* main's matched list of the last loop pass
    results,    \* main's results list
    progress,   \* the last value given to progress_bar.progress, as <<num, den>>
    ui,         \* the st.error / st.info / st.success / st.warning calls so far
    fetched,    \* history: the tickers get_stock_data was called with, in call order
    skipped,    \* history: the tickers the loop passed over, in order
    arg,        \* the series a function of the library is called on
    ret         \* what that call returned

vars == <<checks, pc, selected_indicators, sheet, tickers, i, lastData, matched,
          results, progress, ui, fetched, skipped, arg, ret>>

runVars == <<checks, pc, selected_indicators, sheet, tickers, i, lastData, matched,
             results, progress, ui, fetched, skipped>>

-----------------------------------------------------------------------------
(* Arithmetic *)

Abs(x) == IF x < 0 THEN -x ELSE x

Max(x, y) == IF x >= y THEN x ELSE y

RECURSIVE GCD(_, _)
GCD(a, b) == IF b = 0 THEN a ELSE GCD(b, a % b)

\* The rational n/d, d > 0, in lowest terms.
Rat(n, d) ==
    LET g == GCD(Abs(n), d)
    IN  [n |-> n \div g, d |-> d \div g]

NaN == [n |-> 0, d |-> 0]

IsNaN(x) == x.d = 0

Num(k) == [n |-> k, d |-> 1]

\* x < y and x > y of two doubles: FALSE when either is NaN.
Lt(x, y) == ~IsNaN(x) /\ ~IsNaN(y) /\ x.n * y.d < y.n * x.d

Gt(x, y) == Lt(y, x)

Plus(x, y) ==
    IF IsNaN(x) \/ IsNaN(y) THEN NaN
    ELSE Rat(x.n * y.d + y.n * x.d, x.d * y.d)

\* Series.fillna(0) on one value.
fillna0(x) == IF IsNaN(x) THEN Num(0) ELSE x

RECURSIVE SumOver(_, _, _)
\* f[a] + ... + f[b] of integers (by halves, which keeps the evaluation shallow).
SumOver(f, a, b) ==
    IF a > b THEN 0
    ELSE IF a = b THEN f[a]
    ELSE LET m == (a + b) \div 2
         IN  SumOver(f, a, m) + SumOver(f, m + 1, b)

RECURSIVE RatSumOver(_, _, _)
\* f[a] + ... + f[b] of doubles: NaN as soon as one term is.
RatSumOver(f, a, b) ==
    IF a > b THEN Num(0)
    ELSE IF a = b THEN f[a]
    ELSE LET m == (a + b) \div 2
         IN  Plus(RatSumOver(f, a, m), RatSumOver(f, m + 1, b))

-----------------------------------------------------------------------------
(* Series.  A DataFrame is a sequence of bars, the row at position p        *)
(* (1 .. Len) being the one pandas reaches with iloc[p - 1]; its index      *)
(* label is its position (Yahoo's rows are dated in increasing order).      *)

Bar(c, h, l, v) == [Close |-> c, High |-> h, Low |-> l, Volume |-> v]

\* The position of iloc[-k], k >= 1.  pandas raises IndexError when k > Len.
Back(s, k) == Len(s) - k + 1

\* df.tail(n)
tail(s, n) == IF Len(s) <= n THEN s ELSE SubSeq(s, Len(s) - n + 1, Len(s))

\* What a detector hands back: a truth value, or the IndexError a failed iloc raises.
Returns(b) == [raised |-> FALSE, value |-> b]

IndexError == [raised |-> TRUE, value |-> FALSE]

-----------------------------------------------------------------------------
(* Indicators *)

RsiWindow == 14

\* data['Close'].diff() at position t >= 2 (position 1 is NaN).
diffClose(data, t) == data[t].Close - data[t - 1].Close

\* calculate_rsi: the rolling means of the clipped deltas need RsiWindow deltas,
\* so the first RsiWindow positions are NaN; 0/0 (no gain, no loss) is NaN and
\* gain/0 is +inf, which gives 100 - 100/inf = 100; fillna(0) then turns every
\* NaN into 0.
calculate_rsi(data) ==
    [t \in 1 .. Len(data) |->
        IF t < RsiWindow + 1 THEN fillna0(NaN)
        ELSE LET up   == [k \in 2 .. Len(data) |-> Max(diffClose(data, k), 0)]
                 down == [k \in 2 .. Len(data) |-> Max(-diffClose(data, k), 0)]
                 gain == SumOver(up, t - RsiWindow + 1, t)
                 loss == SumOver(down, t - RsiWindow + 1, t)
                 rsi  == IF loss = 0
                         THEN (IF gain = 0 THEN NaN ELSE Num(100))
                         ELSE Rat(100 * gain, gain + loss)
             IN  fillna0(rsi)]

\* The close location value times the volume, at position t.  Low <= Close <= High
\* in every bar, so High = Low gives 0/0 = NaN, which fillna(0) turns into 0.
moneyFlow(data, t) ==
    LET b   == data[t]
        clv == IF b.High = b.Low THEN fillna0(NaN)
               ELSE Rat((b.Close - b.Low) - (b.High - b.Close), b.High - b.Low)
    IN  Rat(clv.n * b.Volume, clv.d)

\* calculate_adi: the cumulative sum of the money flow.
calculate_adi(data) ==
    LET flow == [t \in 1 .. Len(data) |-> moneyFlow(data, t)]
    IN  [t \in 1 .. Len(data) |-> RatSumOver(flow, 1, t)]

Scale == 10000

RECURSIVE ewmRun(_, _, _, _, _)
\* The smoothed values at positions a .. b of x, given the one before a:
\* y[t] = y[t-1] + 2/(span+1) * (x[t] - y[t-1]).
ewmRun(x, span, a, b, before) ==
    IF a > b THEN <<>>
    ELSE IF a = b THEN <<before + (2 * (x[a] - before)) \div (span + 1)>>
    ELSE LET m    == (a + b) \div 2
             left == ewmRun(x, span, a, m, before)
         IN  left \o ewmRun(x, span, m + 1, b, left[Len(left)])

\* Series.ewm(span, adjust=False).mean() of a fixed-point series: y[1] = x[1].
ewm(x, span) ==
    IF Len(x) = 0 THEN <<>> ELSE <<x[1]>> \o ewmRun(x, span, 2, Len(x), x[1])

MacdFast == 12
MacdSlow == 26
MacdSignal == 9

\* calculate_macd: the MACD line and its signal line, in Scale units.
calculate_macd(data) ==
    LET close    == [t \in 1 .. Len(data) |-> data[t].Close * Scale]
        ema_fast == ewm(close, MacdFast)
        ema_slow == ewm(close, MacdSlow)
        macd     == [t \in 1 .. Len(data) |-> ema_fast[t] - ema_slow[t]]
    IN  [macd |-> macd, signal |-> ewm(macd, MacdSignal)]

\* data['Close'].rolling(w).mean() at position t.
rollingMeanClose(data, w, t) ==
    IF t < w THEN NaN
    ELSE Rat(SumOver([k \in 1 .. Len(data) |-> data[k].Close], t - w + 1, t), w)

AdxPeriod == 14

\* calculate_adx.  With P and M the sums of plus_dm and minus_dm over the period
\* and atr the mean true range, dx = 100 * |P - M| / (P + M) when atr > 0 and
\* P + M > 0, and NaN otherwise (0/0, or inf - inf); positions before the
\* windows are filled are NaN; fillna(0) ends it.
calculate_adx(data) ==
    LET n        == Len(data)
        plus_dm  == [t \in 2 .. n |-> Max(data[t].High - data[t - 1].High, 0)]
        minus_dm == [t \in 2 .. n |-> Abs(data[t].Low - data[t - 1].Low)]
        tr       == [t \in 1 .. n |->
                        IF t = 1 THEN data[t].High - data[t].Low
                        ELSE Max(data[t].High - data[t].Low,
                                 Max(Abs(data[t].High - data[t - 1].Close),
                                     Abs(data[t].Low - data[t - 1].Close)))]
        dx       == [t \in 1 .. n |->
                        IF t < AdxPeriod + 1 THEN NaN
                        ELSE LET P   == SumOver(plus_dm, t - AdxPeriod + 1, t)
                                 M   == SumOver(minus_dm, t - AdxPeriod + 1, t)
                                 atr == SumOver(tr, t - AdxPeriod + 1, t)
                             IN  IF atr = 0 \/ P + M = 0 THEN NaN
                                 ELSE Rat(100 * Abs(P - M), P + M)]
    IN  [t \in 1 .. n |->
            IF t < AdxPeriod THEN fillna0(NaN)
            ELSE LET s == RatSumOver(dx, t - AdxPeriod + 1, t)
                 IN  fillna0(IF IsNaN(s) THEN NaN ELSE Rat(s.n, s.d * AdxPeriod))]

BandWindow == 20

\* data['BandWidth'] < 0.05 at position t, where BandWidth = 4 * stddev / MA20
\* over the last BandWindow closes (stddev with BandWindow - 1 in the divisor).
\* With S the sum of the closes and Q the sum of their squares this is
\* 128000 * (20 * Q - S * S) < 19 * S * S when S > 0; NaN before the window is
\* filled, and NaN or inf when the mean is 0: not below.
narrowBand(data, t) ==
    IF t < BandWindow THEN FALSE
    ELSE LET close == [k \in 1 .. Len(data) |-> data[k].Close]
             sq    == [k \in 1 .. Len(data) |-> data[k].Close * data[k].Close]
             S     == SumOver(close, t - BandWindow + 1, t)
             Q     == SumOver(sq, t - BandWindow + 1, t)
         IN  S > 0 /\ BandWindow * Q - S * S <= (19 * S * S - 1) \div 128000

-----------------------------------------------------------------------------
(* Pattern detectors *)

\* detect_accumulation reading the bar at iloc[-6], five bars before the last.
detect_accumulation_fiveBack(data) ==
    LET adi == calculate_adi(data)
    IN  IF Len(data) < 6 THEN IndexError
        ELSE Returns(Gt(adi[Back(data, 1)], adi[Back(data, 6)]))

detect_accumulation(data) ==
    LET adi == calculate_adi(data)
    IN  IF Len(data) < 5 THEN IndexError
        ELSE Returns(Gt(adi[Back(data, 1)], adi[Back(data, 5)]))

\* detect_distribution reading the bar at iloc[-4] instead of iloc[-5].
detect_distribution_otherBar(data) ==
    LET adi == calculate_adi(data)
    IN  IF Len(data) < 5 THEN IndexError
        ELSE Returns(Lt(adi[Back(data, 1)], adi[Back(data, 4)]))

detect_distribution(data) ==
    LET adi == calculate_adi(data)
    IN  IF Len(data) < 5 THEN IndexError
        ELSE Returns(Lt(adi[Back(data, 1)], adi[Back(data, 5)]))

detect_rsi_oversold(data) ==
    LET rsi == calculate_rsi(data)
    IN  IF Len(data) = 0 THEN Returns(FALSE)
        ELSE Returns(Lt(rsi[Back(data, 1)], Num(30)))

detect_rsi_exit_oversold(data) ==
    LET rsi == calculate_rsi(data)
    IN  IF Len(data) >= 2
        THEN Returns(Lt(rsi[Back(data, 2)], Num(30)) /\ Gt(rsi[Back(data, 1)], Num(30)))
        ELSE Returns(FALSE)

\* Series.iloc[a:b].idxmin() over positions a .. b: the first position of the least close.
idxmin(data, a, b) ==
    CHOOSE p \in a .. b :
        /\ \A q \in a .. b : data[p].Close <= data[q].Close
        /\ \A q \in a .. p - 1 : data[q].Close > data[p].Close

detect_rsi_bullish_divergence(data) ==
    LET rsi == calculate_rsi(data)
    IN  IF Len(data) < 15 THEN Returns(FALSE)
        ELSE LET low1 == idxmin(data, Back(data, 10), Back(data, 6))
                 low2 == idxmin(data, Back(data, 5), Back(data, 1))
             IN  IF low1 >= low2 THEN Returns(FALSE)
                 ELSE Returns(/\ data[low2].Close < data[low1].Close
                              /\ Gt(rsi[low2], rsi[low1]))

detect_macd_bullish_crossover(data) ==
    LET m == calculate_macd(data)
    IN  IF Len(data) < 2 THEN IndexError
        ELSE Returns(/\ m.macd[Back(data, 2)] < m.signal[Back(data, 2)]
                     /\ m.macd[Back(data, 1)] > m.signal[Back(data, 1)])

detect_macd_strong_bullish(data) ==
    LET m     == calculate_macd(data)
        cross == detect_macd_bullish_crossover(data)
    IN  IF cross.raised THEN IndexError
        ELSE Returns(cross.value /\ m.macd[Back(data, 1)] > 0)

detect_volume_up_two_days(data) ==
    IF Len(data) < 20 THEN Returns(FALSE)
    ELSE LET volume         == [t \in 1 .. Len(data) |-> data[t].Volume]
             \* Volume.iloc[-11:-1].mean()
             avg_volume_10d == Rat(SumOver(volume, Back(data, 11), Back(data, 2)), 10)
         IN  Returns(/\ Gt(Num(volume[Back(data, 1)]),
                           Rat(15 * avg_volume_10d.n, 10 * avg_volume_10d.d))
                     /\ Gt(Num(volume[Back(data, 2)]),
                           Rat(13 * avg_volume_10d.n, 10 * avg_volume_10d.d))
                     /\ Gt(Num(data[Back(data, 1)].Close),
                           rollingMeanClose(data, 20, Back(data, 1))))

detect_golden_cross(data) ==
    IF Len(data) < 50 THEN Returns(FALSE)
    ELSE Returns(/\ Lt(rollingMeanClose(data, 20, Back(data, 2)),
                       rollingMeanClose(data, 50, Back(data, 2)))
                 /\ Gt(rollingMeanClose(data, 20, Back(data, 1)),
                       rollingMeanClose(data, 50, Back(data, 1))))

detect_consolidation(data) ==
    IF Len(data) < 20 THEN Returns(FALSE)
    ELSE LET adx == calculate_adx(data)
         IN  Returns(/\ \A t \in Back(data, 3) .. Back(data, 1) : narrowBand(data, t)
                     /\ \A t \in Back(data, 3) .. Back(data, 1) : Lt(adx[t], Num(20)))

-----------------------------------------------------------------------------
(* The sidebar of main() and the selection it gives *)

IndicatorBoxes ==
    << <<"rsi_check", "RSI Oversold">>,
       <<"rsi_exit_check", "RSI Exit Oversold">>,
       <<"rsi_div_check", "RSI Bullish Divergence">>,
       <<"macd_check", "MACD Bullish">>,
       <<"macd_strong_check", "MACD Strong Bullish">>,
       <<"volume_check", "Volume Melejit (MA20 Confirmed)">>,
       <<"golden_cross_check", "Golden Cross">>,
       <<"acc_check", "Akumulasi">>,
       <<"dist_check", "Distribusi">>,
       <<"cons_check", "Konsolidasi">> >>

PresetBoxes == {"three_of_kind_check", "lengkap_check"}

Checkboxes == {IndicatorBoxes[k][1] : k \in 1 .. Len(IndicatorBoxes)} \cup PresetBoxes

\* The checkboxes as the page first shows them (value=True on four of them).
DefaultChecks ==
    [b \in Checkboxes |-> b \in {"rsi_check", "macd_check", "volume_check", "cons_check"}]

ThreeOfKind == <<"RSI Oversold", "MACD Bullish", "Volume Melejit (MA20 Confirmed)">>

Lengkap ==
    <<"RSI Oversold", "RSI Exit Oversold", "RSI Bullish Divergence",
      "MACD Bullish", "MACD Strong Bullish",
      "Volume Melejit (MA20 Confirmed)", "Golden Cross", "Akumulasi", "Distribusi",
      "Konsolidasi">>

\* The names of the ticked indicator checkboxes, in the order main() appends them.
ManualSelection(c) ==
    LET ticked == SelectSeq(IndicatorBoxes, LAMBDA e : c[e[1]])
    IN  [k \in 1 .. Len(ticked) |-> ticked[k][2]]

\* The two preset tests in the other order: "Three of Kind" written last.
SelectedIndicators_threeLast(c) ==
    LET manual  == ManualSelection(c)
        lengkap == IF c["lengkap_check"] THEN Lengkap ELSE manual
    IN  IF c["three_of_kind_check"] THEN ThreeOfKind ELSE lengkap

\* selected_indicators as main() has it after the two preset tests.
SelectedIndicators(c) ==
    LET manual == ManualSelection(c)
        three  == IF c["three_of_kind_check"] THEN ThreeOfKind ELSE manual
    IN  IF c["lengkap_check"] THEN Lengkap ELSE three

\* The test of the empty selection left out.
NothingSelected_never(selected) == FALSE

\* "if not selected_indicators": the run is refused.
NothingSelected(selected) == selected = <<>>

ToSet(s) == {s[k] : k \in 1 .. Len(s)}

-----------------------------------------------------------------------------
(* The two collaborators: the sheet and the price history *)

BlankCell == "(blank)"

\* df['Ticker'].dropna()
dropna(column) == SelectSeq(column, LAMBDA cell : cell # BlankCell)

RECURSIVE unique(_)
\* Series.unique(): the first occurrence of each value, in order.
unique(s) ==
    IF s = <<>> THEN <<>>
    ELSE LET front == unique(SubSeq(s, 1, Len(s) - 1))
             x     == s[Len(s)]
         IN  IF x \in ToSet(front) THEN front ELSE Append(front, x)

\* The column without .unique().
TickerList_keepRepeats(column) == dropna(column)

\* df['Ticker'].dropna().unique().tolist()
TickerList(column) == unique(dropna(column))

None == [none |-> TRUE, bars |-> <<>>]

TailBars == 50

\* get_stock_data keeping a longer tail than the loop asks for.
get_stock_data_longTail(yahoo) ==
    IF yahoo.raises THEN None
    ELSE IF yahoo.history = <<>> THEN None
    ELSE [none |-> FALSE, bars |-> tail(yahoo.history, TailBars + 10)]

\* get_stock_data, given what yfinance does: it raises, or hands back a history
\* (possibly empty).
get_stock_data(yahoo) ==
    IF yahoo.raises THEN None
    ELSE IF yahoo.history = <<>> THEN None
    ELSE [none |-> FALSE, bars |-> tail(yahoo.history, TailBars)]

RequiredBars == 50

\* "data is None or len(data) < 50": the ticker is passed over.
Unavailable(data) == data.none \/ Len(data.bars) < RequiredBars

\* The ten detectors in the order main() calls them: the name main() appends
\* to matched, the function, and what the function hands back.
Detectors(data) ==
    << <<"RSI Oversold", "detect_rsi_oversold", detect_rsi_oversold(data)>>,
       <<"RSI Exit Oversold", "detect_rsi_exit_oversold", detect_rsi_exit_oversold(data)>>,
       <<"RSI Bullish Divergence", "detect_rsi_bullish_divergence",
         detect_rsi_bullish_divergence(data)>>,
       <<"MACD Bullish", "detect_macd_bullish_crossover",
         detect_macd_bullish_crossover(data)>>,
       <<"MACD Strong Bullish", "detect_macd_strong_bullish",
         detect_macd_strong_bullish(data)>>,
       <<"Volume Melejit (MA20 Confirmed)", "detect_volume_up_two_days",
         detect_volume_up_two_days(data)>>,
       <<"Golden Cross", "detect_golden_cross", detect_golden_cross(data)>>,
       <<"Akumulasi", "detect_accumulation", detect_accumulation(data)>>,
       <<"Distribusi", "detect_distribution", detect_distribution(data)>>,
       <<"Konsolidasi", "detect_consolidation", detect_consolidation(data)>> >>

\* The screening of one series (lines 209-219): whether a detector raised, and
\* the matched list.
Screening(data) ==
    LET d    == Detectors(data)
        hits == SelectSeq(d, LAMBDA e : e[3].value)
    IN  [raised  |-> \E k \in 1 .. Len(d) : d[k][3].raised,
         matched |-> [k \in 1 .. Len(hits) |-> hits[k][1]]]

\* any() in the place of all().
Included_any(selected, m) == \E k \in 1 .. Len(selected) : selected[k] \in ToSet(m)

\* "all(ind in matched for ind in selected_indicators)"
Included(selected, m) == \A k \in 1 .. Len(selected) : selected[k] \in ToSet(m)

-----------------------------------------------------------------------------
(* Price histories.  A history is written as its runs of equal bars. *)

RECURSIVE Expand(_)
\* The series of a sequence of runs <<bar, length>>.
Expand(runs) ==
    IF runs = <<>> THEN <<>>
    ELSE LET r == runs[Len(runs)]
         IN  Expand(SubSeq(runs, 1, Len(runs) - 1)) \o [k \in 1 .. r[2] |-> r[1]]


Flat(c, v) == Bar(c, c, c, v)

\* What yfinance may hand back for one ticker: nothing, too little, and 50 or
\* more bars of several shapes.
Histories ==
    { <<>>,
      <<<<Flat(10, 100), 49>>>>,
      <<<<Flat(10, 100), 50>>>>,
      <<<<Flat(20, 300), 46>>, <<Flat(8, 300), 1>>, <<Bar(15, 16, 14, 300), 3>>>>,
      <<<<Bar(11, 11, 9, 100), 32>>, <<Flat(12, 300), 3>>, <<Flat(40, 100), 2>>,
        <<Flat(10, 100), 8>>, <<Flat(15, 300), 5>>>>,
      <<<<Flat(10, 100), 30>>, <<Flat(9, 100), 20>>, <<Flat(100, 100), 1>>>>,
      <<<<Flat(10, 100), 46>>, <<Bar(10, 10, 8, 300), 1>>, <<Bar(10, 12, 10, 100), 1>>,
        <<Flat(10, 100), 2>>>>,
      <<<<Bar(10, 12, 10, 100), 8>>, <<Bar(20, 20, 18, 100), 13>>,
        <<Bar(15, 17, 15, 200), 29>>>>,
      <<<<Bar(9, 11, 9, 100), 46>>, <<Bar(11, 11, 9, 200), 1>>, <<Flat(5, 200), 2>>,
        <<Flat(20, 300), 1>>>> }

\* The calls of yfinance: one that raises, and one per history.
YahooAnswers ==
    {[raises |-> TRUE, history |-> <<>>]}
        \cup {[raises |-> FALSE, history |-> Expand(h)] : h \in Histories}

\* What one pass of the loop may get from get_stock_data, with the screening of
\* it: computed once for every answer.
Fetches ==
    {[data |-> get_stock_data(y), screening |-> Screening(get_stock_data(y).bars)] :
        y \in YahooAnswers}

Tickers == {"AALI", "BBRI"}

MaxRows == 3

\* The Ticker columns a sheet may hold: cells that are a ticker or blank.
Columns == UNION {[1 .. n -> Tickers \cup {BlankCell}] : n \in 0 .. MaxRows}

\* What load_google_sheet may meet: an exception (st.error, None), a sheet
\* without a Ticker column (st.error, None), or a sheet with one.
SheetReads ==
    {[failure |-> "exception", column |-> <<>>],
     [failure |-> "no Ticker column", column |-> <<>>]}
        \cup {[failure |-> "", column |-> c] : c \in Columns}

MaxTicked == 2

\* The sidebars a run may start from: any presets, and up to MaxTicked
\* indicator checkboxes ticked, or the page's defaults.
Sidebars ==
    {c \in [Checkboxes -> BOOLEAN] :
        Cardinality({b \in Checkboxes \ PresetBoxes : c[b]}) <= MaxTicked}
        \cup {DefaultChecks}

-----------------------------------------------------------------------------
(* main(): one press of "Mulai Analisa" *)

Message(call, text, count) == [call |-> call, text |-> text, count |-> count]

NotCalled == [fn |-> "", raised |-> FALSE, value |-> FALSE, last |-> NaN]

Init ==
    /\ checks \in Sidebars
    /\ pc = "idle"
    /\ selected_indicators = <<>>
    /\ sheet = <<>>
    /\ tickers = <<>>
    /\ i = 0
    /\ lastData = [none |-> TRUE, len |-> 0]
    /\ matched = <<>>
    /\ results = <<>>
    /\ progress = <<0, 1>>
    /\ ui = <<>>
    /\ fetched = <<>>
    /\ skipped = <<>>
    /\ arg = <<>>
    /\ ret = NotCalled

\* Lines 167-191: the selection is built and an empty one is refused.
Start ==
    /\ pc = "idle"
    /\ selected_indicators' = SelectedIndicators(checks)
    /\ IF NothingSelected(SelectedIndicators(checks))
       THEN /\ ui' = Append(ui, Message("st.error", "Pilih minimal satu indikator!", <<>>))
            /\ pc' = "rejected"
       ELSE /\ pc' = "load"
            /\ UNCHANGED ui
    /\ UNCHANGED <<checks, sheet, tickers, i, lastData, matched, results, progress,
                   fetched, skipped, arg, ret>>

\* Lines 193-201: the sheet is read; without it the run ends.
LoadSheet ==
    /\ pc = "load"
    /\ \E read \in SheetReads :
          IF read.failure # ""
          THEN /\ ui' = Append(ui, Message("st.error", read.failure, <<>>))
               /\ pc' = "aborted"
               /\ UNCHANGED <<sheet, tickers, progress, results>>
          ELSE /\ sheet' = read.column
               /\ tickers' = TickerList(read.column)
               /\ ui' = Append(ui, Message("st.info", "Menganalisis n saham",
                                           <<Len(TickerList(read.column))>>))
               /\ progress' = <<0, 1>>
               /\ results' = <<>>
               /\ pc' = "loop"
    /\ UNCHANGED <<checks, selected_indicators, i, lastData, matched, fetched,
                   skipped, arg, ret>>

\* Lines 203-228: one pass of the loop, for ticker number i + 1.
LoopPass ==
    /\ pc = "loop"
    /\ i < Len(tickers)
    /\ \E fetch \in Fetches :
          LET ticker == tickers[i + 1]
              got    == fetch.data
              s      == fetch.screening
          IN  /\ fetched' = Append(fetched, ticker)
              /\ lastData' = [none |-> got.none, len |-> Len(got.bars)]
              /\ IF Unavailable(got)
                 THEN /\ progress' = <<i + 1, Len(tickers)>>
                      /\ i' = i + 1
                      /\ skipped' = Append(skipped, ticker)
                      /\ UNCHANGED <<pc, matched, results>>
                 ELSE IF s.raised
                 THEN /\ pc' = "crashed"
                      /\ UNCHANGED <<i, matched, results, progress, skipped>>
                 ELSE /\ matched' = s.matched
                      /\ results' =
                            IF Included(selected_indicators, s.matched)
                            THEN Append(results,
                                        [Ticker |-> ticker,
                                         Last_Close |-> got.bars[Back(got.bars, 1)].Close,
                                         Indikator_Terpenuhi |-> s.matched])
                            ELSE results
                      /\ progress' = <<i + 1, Len(tickers)>>
                      /\ i' = i + 1
                      /\ UNCHANGED <<pc, skipped>>
    /\ UNCHANGED <<checks, selected_indicators, sheet, tickers, ui, arg, ret>>

\* Lines 230-241: the outcome is shown, then BBCA is fetched and shown.
Report ==
    /\ pc = "loop"
    /\ i = Len(tickers)
    /\ \E bbca_none \in {f.data.none : f \in Fetches} :
          LET shown == IF results # <<>>
                       THEN <<Message("st.success", "Saham yang memenuhi kriteria:", <<>>),
                              Message("st.dataframe", "results", <<>>)>>
                       ELSE <<Message("st.warning", "Tidak ada saham yang memenuhi kriteria.",
                                      <<>>)>>
              bbca  == IF bbca_none
                       THEN Message("st.error", "Gagal mengambil data BBCA.", <<>>)
                       ELSE Message("st.dataframe", "bbca_data", <<>>)
          IN  ui' = ui \o shown \o <<bbca>>
    /\ fetched' = Append(fetched, "BBCA")
    /\ pc' = "done"
    /\ UNCHANGED <<checks, selected_indicators, sheet, tickers, i, lastData, matched,
                   results, progress, skipped, arg, ret>>

Next == Start \/ LoadSheet \/ LoopPass \/ Report

Spec == Init /\ [][Next]_vars

-----------------------------------------------------------------------------
(* The library called directly: one function on one series of any length *)

BarSet ==
    {Flat(10, 100), Bar(10, 12, 8, 100), Bar(12, 12, 8, 100), Bar(8, 12, 8, 200),
     Bar(10, 11, 8, 100)}

MaxHead == 16

MaxTail == 5

\* The series a call is made on: a run of one bar, then a run of another.
SeriesSet ==
    {Expand(<<<<b1, n1>>, <<b2, n2>>>>) :
        b1 \in BarSet, n1 \in 0 .. MaxHead, b2 \in BarSet, n2 \in 0 .. MaxTail}

LibInit ==
    /\ arg \in SeriesSet
    /\ ret = NotCalled
    /\ checks = DefaultChecks
    /\ pc = "idle"
    /\ selected_indicators = <<>>
    /\ sheet = <<>>
    /\ tickers = <<>>
    /\ i = 0
    /\ lastData = [none |-> TRUE, len |-> 0]
    /\ matched = <<>>
    /\ results = <<>>
    /\ progress = <<0, 1>>
    /\ ui = <<>>
    /\ fetched = <<>>
    /\ skipped = <<>>

\* calculate_rsi(arg); the last value of the series it returns is kept.
CallRsi ==
    /\ ret = NotCalled
    /\ ret' = [fn |-> "calculate_rsi", raised |-> FALSE, value |-> FALSE,
               last |-> IF arg = <<>> THEN NaN ELSE calculate_rsi(arg)[Len(arg)]]
    /\ UNCHANGED <<arg, runVars>>

\* One of the ten detectors, called on arg.
CallDetector ==
    /\ ret = NotCalled
    /\ LET d == Detectors(arg)
       IN  \E k \in 1 .. Len(d) :
              ret' = [fn |-> d[k][2], raised |-> d[k][3].raised,
                      value |-> d[k][3].value, last |-> NaN]
    /\ UNCHANGED <<arg, runVars>>

LibNext == CallRsi \/ CallDetector

LibSpec == LibInit /\ [][LibNext]_vars

-----------------------------------------------------------------------------
(* Properties of a run (Spec) *)

\* The last pass of the loop went past the data check and screened its ticker.
LastPassScreened ==
    /\ pc \in {"loop", "done"}
    /\ i > 0
    /\ ~lastData.none
    /\ lastData.len >= RequiredBars

\* The last pass appended a record for its ticker.
LastPassRecorded ==
    /\ results # <<>>
    /\ results[Len(results)].Ticker = tickers[i]
    /\ results[Len(results)].Indikator_Terpenuhi = matched

Selected == ToSet(selected_indicators)

Matched == ToSet(matched)

\* C1: a pass that screened its ticker appended a record for it if and only if
\* every selected name is in the matched list.
C1_RecordIffAllSelectedMatched ==
    LastPassScreened => (LastPassRecorded <=> Selected \subseteq Matched)

\* C1, reached: after two passes the first ticker is recorded although it
\* matched more than was selected, and the second is not, although it matched
\* some of the selected names.
C1_Witness ==
    /\ LastPassScreened
    /\ i = 2
    /\ Len(results) = 1
    /\ results[1].Ticker = tickers[1]
    /\ Selected \subseteq ToSet(results[1].Indikator_Terpenuhi)
    /\ Selected # ToSet(results[1].Indikator_Terpenuhi)
    /\ Selected \cap Matched # {}
    /\ ~(Selected \subseteq Matched)

NoBoxTicked == \A b \in Checkboxes : ~checks[b]

\* C2: started with no checkbox ticked, the run is refused with the error and
\* goes no further: no sheet, no fetch, no record.
C2_EmptySelectionRefused ==
    (NoBoxTicked /\ pc # "idle") =>
        /\ pc = "rejected"
        /\ ui = <<Message("st.error", "Pilih minimal satu indikator!", <<>>)>>
        /\ sheet = <<>>
        /\ tickers = <<>>
        /\ fetched = <<>>
        /\ results = <<>>

\* C2, reached: a refused run.
C2_Witness == NoBoxTicked /\ pc = "rejected" /\ ui # <<>>

\* A message shown once the loop is over tells how many tickers were passed over.
SkippedCountShown ==
    \E k \in 1 .. Len(ui) :
        /\ ui[k].call \in {"st.success", "st.warning", "st.dataframe", "st.error"}
        /\ ui[k].count = <<Len(skipped)>>

\* What holds of a passed-over ticker: it is in no record, the pass that met it
\* only moved the progress bar on, and the loop goes on to the end of the list.
SkippedTickerLeftOut ==
    /\ \A k \in 1 .. Len(results) : results[k].Ticker \notin ToSet(skipped)
    /\ pc \in {"loop", "done"} => fetched \in {SubSeq(tickers, 1, i),
                                                Append(SubSeq(tickers, 1, i), "BBCA")}
    /\ pc = "done" => i = Len(tickers)
    /\ pc # "crashed"

\* C3, as claimed: a ticker without enough data is in no record, does not stop
\* the run, and is counted as skipped.
C3_SkippedTickerCounted ==
    /\ SkippedTickerLeftOut
    /\ (pc = "done" /\ skipped # <<>>) => SkippedCountShown

\* C4, as claimed: a ticked preset gives its bundle whatever else is ticked.
C4_TickedPresetGivesItsBundle ==
    pc # "idle" =>
        /\ checks["three_of_kind_check"] => selected_indicators = ThreeOfKind
        /\ checks["lengkap_check"] => selected_indicators = Lengkap

\* C4, amended: "Lengkap" ticked gives the ten names whatever else is ticked;
\* "Three of Kind" ticked gives its three names whatever else is ticked except
\* "Lengkap"; and a record is then appended by the same rule.
C4_PresetSelection ==
    /\ ToSet(Lengkap) = {IndicatorBoxes[k][2] : k \in 1 .. Len(IndicatorBoxes)}
    /\ Len(Lengkap) = 10
    /\ pc # "idle" =>
          /\ checks["lengkap_check"] => selected_indicators = Lengkap
          /\ (checks["three_of_kind_check"] /\ ~checks["lengkap_check"]) =>
                selected_indicators =
                    <<"RSI Oversold", "MACD Bullish", "Volume Melejit (MA20 Confirmed)">>
    /\ ((checks["three_of_kind_check"] \/ checks["lengkap_check"]) /\ LastPassScreened) =>
          (LastPassRecorded <=> Selected \subseteq Matched)

\* C4, reached: "Three of Kind" ticked beside an indicator that is not in it,
\* and a ticker recorded that matched the three.
C4_Witness ==
    /\ checks["three_of_kind_check"]
    /\ ~checks["lengkap_check"]
    /\ checks["golden_cross_check"]
    /\ LastPassScreened
    /\ LastPassRecorded

\* The row of the sheet where a ticker first stands.
FirstRow(t) == CHOOSE r \in 1 .. Len(sheet) : sheet[r] = t /\ \A q \in 1 .. r - 1 : sheet[q] # t

\* C6: at every point the results hold at most one record per ticker, only for
\* tickers the loop has screened and the selection includes, in sheet order.
C6_OneRecordPerTickerInOrder ==
    /\ \A a, b \in 1 .. Len(results) : a # b => results[a].Ticker # results[b].Ticker
    /\ \A a \in 1 .. Len(results) :
          /\ results[a].Ticker \in ToSet(sheet)
          /\ results[a].Ticker \in ToSet(SubSeq(tickers, 1, i))
          /\ results[a].Ticker \notin ToSet(skipped)
          /\ Selected \subseteq ToSet(results[a].Indikator_Terpenuhi)
    /\ \A a, b \in 1 .. Len(results) :
          a < b => FirstRow(results[a].Ticker) < FirstRow(results[b].Ticker)

\* C6, reached: two records from a sheet with a repeated or blank cell.
C6_Witness ==
    /\ Len(results) = 2
    /\ Len(sheet) > Len(tickers)

\* C9: no matched list holds both "Akumulasi" and "Distribusi", and with
\* "Lengkap" ticked the results stay empty.
C9_NeverBothSoLengkapEmpty ==
    /\ ~({"Akumulasi", "Distribusi"} \subseteq Matched)
    /\ checks["lengkap_check"] => results = <<>>

\* C9, reached: a run with "Lengkap" ticked ends after screening a ticker that
\* matched "Akumulasi".
C9_Witness ==
    /\ checks["lengkap_check"]
    /\ pc = "done"
    /\ LastPassScreened
    /\ "Akumulasi" \in Matched
    /\ results = <<>>

\* C10: a screened series has exactly 50 bars, "Golden Cross" is in no matched
\* list, and a selection with "Golden Cross" in it leaves the results empty.
C10_GoldenCrossNeverMatched ==
    /\ LastPassScreened => lastData.len = 50
    /\ "Golden Cross" \notin Matched
    /\ "Golden Cross" \in Selected => results = <<>>

\* C10, reached: a run that selected only "Golden Cross" ends with a ticker
\* screened, other names matched, and nothing recorded.
C10_Witness ==
    /\ selected_indicators = <<"Golden Cross">>
    /\ pc = "done"
    /\ LastPassScreened
    /\ matched # <<>>
    /\ results = <<>>

-----------------------------------------------------------------------------
(* Properties of the library called directly (LibSpec) *)

\* The number of bars the detector reads or asks for.
BarsNeeded(fn) ==
    CASE fn = "detect_accumulation" -> 5
      [] fn = "detect_distribution" -> 5
      [] fn = "detect_rsi_oversold" -> 1
      [] fn = "detect_rsi_exit_oversold" -> 2
      [] fn = "detect_rsi_bullish_divergence" -> 15
      [] fn = "detect_macd_bullish_crossover" -> 2
      [] fn = "detect_macd_strong_bullish" -> 2
      [] fn = "detect_volume_up_two_days" -> 20
      [] fn = "detect_golden_cross" -> 50
      [] fn = "detect_consolidation" -> 20
      [] OTHER -> 0

\* C5, as claimed: on a series shorter than what it reads, a detector returns
\* false and does not raise.
C5_ShortSeriesGivesFalse ==
    Len(arg) < BarsNeeded(ret.fn) => (~ret.raised /\ ~ret.value)

ConstantClose(s) == \A t \in 1 .. Len(s) : s[t].Close = s[1].Close

\* C7, as claimed: on a series of constant close, long enough for the average
\* gain and the average loss to be there (both 0), the last RSI value is 50.
C7_FlatCloseGivesNeutral ==
    (ret.fn = "calculate_rsi" /\ Len(arg) > RsiWindow /\ ConstantClose(arg)) =>
        ret.last = Num(50)

LastFourFlow(s) ==
    RatSumOver([t \in 1 .. Len(s) |-> moneyFlow(s, t)], Len(s) - 3, Len(s))

=============================================================================
